---- MODULE Spec2Model ----
(***************************************************************************)
(* A model of the bookmark pipeline of wesleykerr/knowledge-management:    *)
(* the file-backed stage caches and the record-store entry points of       *)
(* bookmarks/bookmark_processor.py, the generic processor of               *)
(* bookmarks/processors/default.py and the directory watcher of            *)
(* bookmarks/listener.py.                                                  *)
(*                                                                         *)
(* Text is modelled as sequences of one-character strings, a directory as  *)
(* a set of files [name, data], a table as a set of rows.  Every handler   *)
(* is one atomic action (the program is single-threaded); what the         *)
(* network, the extractor and the completion service answer is an input    *)
(* of the action.                                                          *)
(***************************************************************************)
EXTENDS Integers, Sequences, FiniteSets, TLC

VARIABLES
    web_pages,              \* constants.WEB_PAGE_PATH: <hash>.html files
    web_readability,        \* constants.WEB_READABILITY_PATH: <hash>.json files
    web_readability_html,   \* constants.WEB_READABILITY_HTML_PATH: <hash>.html files
    web_notes,              \* constants.WEB_SUMMARY_PATH: rendered notes
    Bookmark,               \* table models.Bookmark
    WebPage,                \* table models.WebPage
    Summary,                \* table models.Summary
    Error,                  \* table models.Error
    last,                   \* what the last pipeline call did (history)
    watch_dir,              \* the watched directory: capture files
    page_dirs,              \* constants.WEB_PAGE_PATH: <hash>/ working directories
    kb_notes,               \* KNOWLEDGE_BASE_PATH/<folder>/: rendered notes
    kb_dirs,                \* KNOWLEDGE_BASE_PATH/<folder>/: relocated artifacts
    research_papers,        \* constants.RESEARCH_PAPERS_PATH: <arxiv_id>.pdf
    research_md,            \* constants.RESEARCH_MARKDOWN_PATH: <arxiv_id>/ directories
    twitter_notes,          \* constants.TWITTER_NOTES_PATH: tweet-<id>.md
    completed,              \* URLs a processor has returned for (history)
    lastw,                  \* what the last process_file call did (history)
    submitted,              \* capture files written so far
    listener,               \* DirectoryListener: its threads, its event queue (and history)
    applied                 \* the last application of a function of the program (history)

core_vars == <<web_pages, web_readability, web_readability_html, web_notes,
               Bookmark, WebPage, Summary, Error, last>>

watch_vars == <<watch_dir, page_dirs, kb_notes, kb_dirs, research_papers,
                research_md, twitter_notes, completed, lastw, submitted, listener>>

fn_vars == <<applied>>

vars == <<core_vars, watch_vars, fn_vars>>

-----------------------------------------------------------------------------
(* Python values *)

\* Python's None, where a string is expected.
None == "None"

\* "no exception was raised"
NoExc == [type |-> "NoExc", msg |-> "", code |-> 0]

Exc(type, msg, code) == [type |-> type, msg |-> msg, code |-> code]

\* the truth value of `if html_content:` for None or a str
Truthy(s) == s # None /\ s # ""

-----------------------------------------------------------------------------
(* URLs and fingerprints *)

UrlArticle == <<"https://", "example.com", "/article">>
UrlPage == <<"https://", "example.com", "/page">>
UrlArxiv == <<"https://", "arxiv.org", "/abs/", "1234.5678">>
UrlTweet == <<"https://", "x.com", "/", "u", "/status/", "1">>
UrlVideo == <<"https://", "youtube.com", "/watch", "?v=", "abc">>

GenericUrls == {UrlArticle, UrlPage}

\* The article with the host in capitals, and two pages told apart by a
\* query only.
UrlArticleUpper == <<"https://", "Example.com", "/article">>
UrlRef5 == <<"https://", "example.com", "/page", "?ref=", "5">>
UrlRef105 == <<"https://", "example.com", "/page", "?ref=", "105">>

\* hashlib.sha256(url.encode()).hexdigest(): the hex digest of the URL text,
\* its 64 digits abridged to the first two and the last four; distinct texts
\* have distinct digests.
hexdigest(url) ==
    CASE url = UrlArticle      -> <<"6", "3", "5", "5", "3", "9">>
      [] url = UrlArticleUpper -> <<"6", "e", "0", "b", "a", "e">>
      [] url = UrlPage         -> <<"3", "6", "6", "3", "4", "f">>
      [] url = UrlArxiv        -> <<"3", "3", "d", "d", "2", "f">>
      [] url = UrlTweet        -> <<"c", "1", "0", "0", "f", "e">>
      [] url = UrlVideo        -> <<"5", "3", "a", "1", "1", "d">>
      [] url = UrlRef5         -> <<"3", "7", "d", "2", "2", "f">>
      [] url = UrlRef105       -> <<"4", "a", "d", "2", "2", "f">>
      [] OTHER                 -> <<"d", "d", "0", "0", "0", "0">>

\* An argument is a str or a models.Bookmark instance.
Str(s) == [kind |-> "str", val |-> s]
BookmarkObj(h) == [kind |-> "Bookmark", val |-> h]

\* llm.get_url_hash(url): url.encode() exists on a str only.
get_url_hash(arg) ==
    IF arg.kind = "str"
    THEN [exc |-> NoExc, ret |-> hexdigest(arg.val)]
    ELSE [exc |-> Exc("AttributeError", "encode", 0), ret |-> <<>>]

Hashes == {hexdigest(u) : u \in GenericUrls}

-----------------------------------------------------------------------------
(* Files *)

File(name, data) == [name |-> name, data |-> data]

exists(dir, name) == \E f \in dir : f.name = name

read(dir, name) == (CHOOSE f \in dir : f.name = name).data

\* open(path, "w"); f.write(data): creates the file or replaces its content
write(dir, name, data) == {f \in dir : f.name # name} \cup {File(name, data)}

html_name(url_hash) == url_hash \o <<".html">>
json_name(url_hash) == url_hash \o <<".json">>

-----------------------------------------------------------------------------
(* Pages, and what the extractor makes of them *)

\* Page texts: two articles, and a page readability finds no content in.
HtmlDocs == {"<A>", "<B>", "<N>"}

\* What requests.get answers: a status code and, for 200, a body.
StatusCodes == {200, 403, 404, 500, 503}
Responses ==
    {[status_code |-> 200, text |-> d] : d \in {"<A>", "<N>"}}
        \cup {[status_code |-> s, text |-> ""] : s \in StatusCodes \ {200}}

\* What open(path, "w"); f.write(text) leaves when the process dies between
\* the open and the close: the empty file, or a first part of the text.
Cuts(text) ==
    CASE text = "<A>" -> {"", "<A"}
      [] text = "<B>" -> {"", "<B"}
      [] text = "<N>" -> {"", "<N"}
      [] OTHER        -> {""}
CutPages == UNION {Cuts(d) : d \in HtmlDocs}

\* What json.dump(content_obj, f) leaves when the process dies before the
\* close: bytes that are no JSON document (json.load raises on them).
CutJson == [title |-> <<>>, plain_content |-> "{"]

\* readabilipy.simple_json_from_html_string(html, use_readability=True)
simple_json_from_html_string(html) ==
    CASE html = "<A>" -> [title |-> <<"E", "x", " ", "T">>, plain_content |-> "text of A"]
      [] html = "<B>" -> [title |-> <<"B", "!">>, plain_content |-> "text of B"]
      \* a page with a title and no text
      [] html = "<E>" -> [title |-> <<"E", "x">>, plain_content |-> ""]
      [] OTHER        -> [title |-> <<>>, plain_content |-> None]

\* readabilipy.simple_tree_from_html_string(html)
simple_tree_from_html_string(html) == <<"tree", html>>

-----------------------------------------------------------------------------
(* Note file names: bookmark_processor.sanitize_filename, process_bookmark *)

Min(a, b) == IF a <= b THEN a ELSE b

\* title[:50]
TitleCap == 50
Take(s, n) == SubSeq(s, 1, Min(n, Len(s)))

\* str.lower() on the letters the titles use
lower(c) ==
    CASE c = "E" -> "e"
      [] c = "T" -> "t"
      [] c = "B" -> "b"
      [] c = "O" -> "o"
      [] c = "ARXIV.ORG" -> "arxiv.org"
      [] c = "Example.com" -> "example.com"
      [] OTHER   -> c

\* \w of the regular expressions: letters, digits, underscore
IsWord(c) == c \in {"e", "t", "b", "x", "a", "1", "2", "_"}
\* \s
IsSpace(c) == c \in {" ", "\t"}

RECURSIVE MapLower(_)
MapLower(s) == IF s = <<>> THEN <<>> ELSE <<lower(Head(s))>> \o MapLower(Tail(s))

\* re.sub(r"[^\w\s-]", "", s)
RECURSIVE DropPunct(_)
DropPunct(s) ==
    IF s = <<>> THEN <<>>
    ELSE IF IsWord(Head(s)) \/ IsSpace(Head(s)) \/ Head(s) = "-"
         THEN <<Head(s)>> \o DropPunct(Tail(s))
         ELSE DropPunct(Tail(s))

\* re.sub(r"\s+", "-", s)
RECURSIVE SpacesToHyphen(_)
SpacesToHyphen(s) ==
    IF s = <<>> THEN <<>>
    ELSE IF IsSpace(Head(s))
         THEN IF Len(s) > 1 /\ IsSpace(s[2])
              THEN SpacesToHyphen(Tail(s))
              ELSE <<"-">> \o SpacesToHyphen(Tail(s))
         ELSE <<Head(s)>> \o SpacesToHyphen(Tail(s))

\* re.sub(r"-+", "-", s)
RECURSIVE SqueezeHyphens(_)
SqueezeHyphens(s) ==
    IF s = <<>> THEN <<>>
    ELSE IF Head(s) = "-" /\ Len(s) > 1 /\ s[2] = "-"
         THEN SqueezeHyphens(Tail(s))
         ELSE <<Head(s)>> \o SqueezeHyphens(Tail(s))

\* str.strip("-")
RECURSIVE StripHyphens(_)
StripHyphens(s) ==
    IF s = <<>> THEN <<>>
    ELSE IF Head(s) = "-" THEN StripHyphens(Tail(s))
    ELSE IF s[Len(s)] = "-" THEN StripHyphens(SubSeq(s, 1, Len(s) - 1))
    ELSE s

sanitize_filename(title) ==
    StripHyphens(SqueezeHyphens(SpacesToHyphen(DropPunct(MapLower(title)))))

\* url_hash[-4:]
SuffixLen == 4
unique_suffix(url_hash) ==
    SubSeq(url_hash, Len(url_hash) - Min(SuffixLen, Len(url_hash)) + 1, Len(url_hash))

\* f"{base_name}-{unique_suffix}.md"
note_filename(title, url_hash) ==
    sanitize_filename(Take(title, TitleCap)) \o <<"-">> \o unique_suffix(url_hash) \o <<".md">>

\* base.get_filename(title, url_hash)
get_filename(title, url_hash) ==
    sanitize_filename(Take(title, TitleCap)) \o <<"-">> \o unique_suffix(url_hash) \o <<".md">>

-----------------------------------------------------------------------------
(* The stage caches: bookmark_processor.get_webpage, get_readability *)

\* A fetch stage that does not look at the stored page: supplied content, or
\* else a GET, replaces whatever was stored.
get_webpage_uncached(dir, url_hash, url, html_content, response) ==
    LET html_path == html_name(url_hash) IN
    IF Truthy(html_content)
    THEN [exc |-> NoExc, ret |-> html_content,
          dir |-> write(dir, html_path, html_content), hit |-> FALSE, get |-> FALSE]
    ELSE IF response.status_code = 200
    THEN [exc |-> NoExc, ret |-> response.text,
          dir |-> write(dir, html_path, response.text), hit |-> FALSE, get |-> TRUE]
    ELSE [exc |-> Exc("ValueError", "StatusCode", response.status_code),
          ret |-> None, dir |-> dir, hit |-> FALSE, get |-> TRUE]

\* get_webpage(url_hash, url, html_content), the directory WEB_PAGE_PATH being
\* dir and the answer of requests.get being response.  get: a GET was issued.
get_webpage(dir, url_hash, url, html_content, response) ==
    LET html_path == html_name(url_hash) IN
    IF exists(dir, html_path)
    THEN [exc |-> NoExc, ret |-> read(dir, html_path), dir |-> dir,
          hit |-> TRUE, get |-> FALSE]
    ELSE IF Truthy(html_content)
    THEN [exc |-> NoExc, ret |-> html_content,
          dir |-> write(dir, html_path, html_content), hit |-> FALSE, get |-> FALSE]
    ELSE IF response.status_code = 200
    THEN [exc |-> NoExc, ret |-> response.text,
          dir |-> write(dir, html_path, response.text), hit |-> FALSE, get |-> TRUE]
    ELSE [exc |-> CASE response.status_code = 403 -> Exc("ValueError", "Status=403", 0)
                    [] response.status_code = 404 -> Exc("ValueError", "URL Missing", 0)
                    [] response.status_code = 500 -> Exc("ValueError", "Service problem", 0)
                    [] OTHER -> Exc("ValueError", "StatusCode", response.status_code),
          ret |-> None, dir |-> dir, hit |-> FALSE, get |-> TRUE]

NoObj == [title |-> <<>>, plain_content |-> None]

\* An extract stage that stores what the extractor gave before looking at it,
\* so that a failed extraction leaves a file behind.
get_readability_eager(rdir, hdir, url_hash, html_content) ==
    LET readability_path == json_name(url_hash)
        hit == exists(rdir, readability_path)
        content_obj == IF hit THEN read(rdir, readability_path)
                       ELSE simple_json_from_html_string(html_content)
        stored == IF hit THEN rdir ELSE write(rdir, readability_path, content_obj)
    IN
    IF content_obj.plain_content = None
    THEN [exc |-> Exc("ValueError", "No content", 0), ret |-> NoObj,
          rdir |-> stored, hdir |-> hdir, hit |-> hit, extracted |-> ~hit, tree |-> FALSE]
    ELSE [exc |-> NoExc, ret |-> content_obj, rdir |-> stored,
          hdir |-> write(hdir, html_name(url_hash),
                         simple_tree_from_html_string(html_content)),
          hit |-> hit, extracted |-> ~hit, tree |-> TRUE]

\* get_readability(url_hash, html_content), on the directories
\* WEB_READABILITY_PATH (rdir) and WEB_READABILITY_HTML_PATH (hdir).
\* extracted: simple_json_from_html_string ran; tree: simple_tree_... ran.
get_readability(rdir, hdir, url_hash, html_content) ==
    LET readability_path == json_name(url_hash)
        readability_html_path == html_name(url_hash)
        hit == exists(rdir, readability_path)
        content_obj == IF hit THEN read(rdir, readability_path)
                       ELSE simple_json_from_html_string(html_content)
        tree_hit == exists(hdir, readability_html_path)
    IN
    \* json.load(f) on a file that holds no JSON document
    IF hit /\ content_obj = CutJson
    THEN [exc |-> Exc("JSONDecodeError", "", 0), ret |-> NoObj,
          rdir |-> rdir, hdir |-> hdir, hit |-> TRUE, extracted |-> FALSE, tree |-> FALSE]
    ELSE IF ~hit /\ content_obj.plain_content = None
    THEN [exc |-> Exc("ValueError", "No content", 0), ret |-> NoObj,
          rdir |-> rdir, hdir |-> hdir, hit |-> FALSE, extracted |-> TRUE, tree |-> FALSE]
    ELSE [exc |-> NoExc, ret |-> content_obj,
          rdir |-> IF hit THEN rdir ELSE write(rdir, readability_path, content_obj),
          hdir |-> IF tree_hit THEN hdir
                   ELSE write(hdir, readability_html_path,
                              simple_tree_from_html_string(html_content)),
          hit |-> hit, extracted |-> ~hit, tree |-> ~tree_hit]

-----------------------------------------------------------------------------
(* bookmark_processor.process_bookmark *)

\* The files process_bookmark works on.
Disk(pages, readability, readability_html, notes) ==
    [pages |-> pages, readability |-> readability,
     readability_html |-> readability_html, notes |-> notes]

\* A stage that was not reached.
NoWeb == [called |-> FALSE, hit |-> FALSE, get |-> FALSE, exc |-> NoExc, ret |-> None]
NoRead == [called |-> FALSE, hit |-> FALSE, extracted |-> FALSE, tree |-> FALSE,
           exc |-> NoExc, ret |-> NoObj]

NoMarkdown == [url |-> <<>>, url_hash |-> <<>>, title |-> <<>>, content |-> None]

\* processors.get_processor(url).generate_markdown(url, url_hash, title,
\* plain_content, {}): the note body rendered from the canonical fields.
generate_markdown(url, url_hash, title, plain_content) ==
    [url |-> url, url_hash |-> url_hash, title |-> title, content |-> plain_content]

\* process_bookmark(url, html_content): fetch, extract, render, write the note.
\* It has no return statement: the caller gets None (ret.none).
process_bookmark(disk, arg, html_content, response) ==
    LET hashed == get_url_hash(arg)
        url_hash == hashed.ret
        web == get_webpage(disk.pages, url_hash, arg.val, html_content, response)
        rd == get_readability(disk.readability, disk.readability_html, url_hash, web.ret)
        title == rd.ret.title
        markdown == generate_markdown(arg.val, url_hash, title, rd.ret.plain_content)
        webinfo == [called |-> TRUE, hit |-> web.hit, get |-> web.get,
                    exc |-> web.exc, ret |-> web.ret]
        readinfo == [called |-> TRUE, hit |-> rd.hit, extracted |-> rd.extracted,
                     tree |-> rd.tree, exc |-> rd.exc, ret |-> rd.ret]
    IN
    IF hashed.exc # NoExc
    THEN [exc |-> hashed.exc, disk |-> disk, web |-> NoWeb, read |-> NoRead,
          wrote |-> NoMarkdown]
    ELSE IF web.exc # NoExc
    THEN [exc |-> web.exc, disk |-> [disk EXCEPT !.pages = web.dir],
          web |-> webinfo, read |-> NoRead, wrote |-> NoMarkdown]
    ELSE IF rd.exc # NoExc
    THEN [exc |-> rd.exc,
          disk |-> [disk EXCEPT !.pages = web.dir, !.readability = rd.rdir,
                                !.readability_html = rd.hdir],
          web |-> webinfo, read |-> readinfo, wrote |-> NoMarkdown]
    ELSE [exc |-> NoExc,
          disk |-> Disk(web.dir, rd.rdir, rd.hdir,
                        write(disk.notes, note_filename(title, url_hash), markdown)),
          web |-> webinfo, read |-> readinfo, wrote |-> markdown]

-----------------------------------------------------------------------------
(* The record store: models.py, and the entry points that use it *)

\* Bookmark.status of a row created by process_generic_url (status=0)
StatusNew == 0

\* An INSERT OR REPLACE: the new row takes the place of the row with its key.
create_or_replace(table, row) ==
    [exc |-> NoExc, table |-> {r \in table : r.url_hash # row.url_hash} \cup {row}]

\* Model.create(**row) on a table whose primary key is url_hash: the INSERT
\* fails with IntegrityError when a row with that key exists.
create(table, row) ==
    IF \E r \in table : r.url_hash = row.url_hash
    THEN [exc |-> Exc("IntegrityError", "UNIQUE constraint failed", 0), table |-> table]
    ELSE [exc |-> NoExc, table |-> table \cup {row}]

\* Model.get(Model.url_hash == url_hash) finds a row
has_row(table, url_hash) == \E r \in table : r.url_hash = url_hash

get_row(table, url_hash) == CHOOSE r \in table : r.url_hash = url_hash

Tables(bookmark, webpage) == [Bookmark |-> bookmark, WebPage |-> webpage]

\* what an entry point hands back: an exception or a value, the tables and
\* the files as it leaves them, and what its stages did
Outcome(exc, ret, tables, pb) ==
    [exc |-> exc, ret |-> ret, tables |-> tables, disk |-> pb.disk,
     web |-> pb.web, read |-> pb.read, wrote |-> pb.wrote]

RetNone == [none |-> TRUE, val |-> NoMarkdown]
Ret(v) == [none |-> FALSE, val |-> v]

\* reprocess(url, html_content): the row must exist; supplied content is
\* inserted into WebPage unless a row is there; then process_bookmark is
\* called with the Bookmark instance.
reprocess(tables, summary, disk, url, html_content, response) ==
    LET url_hash == get_url_hash(Str(url)).ret
        c == IF Truthy(html_content)
             THEN create(tables.WebPage,
                         [url_hash |-> url_hash, url |-> url, content |-> html_content])
             ELSE [exc |-> NoExc, table |-> tables.WebPage]
        pb == process_bookmark(disk, BookmarkObj(url_hash), None, response)
        idle == [disk |-> disk, web |-> NoWeb, read |-> NoRead, wrote |-> NoMarkdown]
    IN
    IF ~has_row(tables.Bookmark, url_hash)
    THEN Outcome(Exc("DoesNotExist", "Bookmark", 0), RetNone, tables, idle)
    ELSE Outcome(pb.exc, RetNone, Tables(tables.Bookmark, c.table), pb)

\* A process_generic_url that lets the failed INSERT of an existing row reach
\* its caller.
process_generic_url_raising(tables, summary, disk, url, html_content, response) ==
    LET url_hash == get_url_hash(Str(url)).ret
        c1 == create(tables.Bookmark,
                     [url_hash |-> url_hash, url |-> url, title |-> <<>>,
                      status |-> StatusNew])
        pb == process_bookmark(disk, BookmarkObj(url_hash), None, response)
        idle == [disk |-> disk, web |-> NoWeb, read |-> NoRead, wrote |-> NoMarkdown]
    IN
    IF c1.exc = NoExc
    THEN Outcome(pb.exc, RetNone, Tables(c1.table, tables.WebPage), pb)
    ELSE Outcome(c1.exc, RetNone, tables, idle)

\* process_generic_url(url, html_content)
process_generic_url(tables, summary, disk, url, html_content, response) ==
    LET url_hash == get_url_hash(Str(url)).ret
        c1 == create(tables.Bookmark,
                     [url_hash |-> url_hash, url |-> url, title |-> <<>>,
                      status |-> StatusNew])
        c2 == IF c1.exc = NoExc /\ Truthy(html_content)
              THEN create(tables.WebPage,
                          [url_hash |-> url_hash, url |-> url, content |-> html_content])
              ELSE [exc |-> NoExc, table |-> tables.WebPage]
        after == Tables(c1.table, c2.table)
        pb == process_bookmark(disk, BookmarkObj(url_hash), None, response)
        idle == [disk |-> disk, web |-> NoWeb, read |-> NoRead, wrote |-> NoMarkdown]
    IN
    IF c1.exc = NoExc /\ c2.exc = NoExc
    THEN Outcome(pb.exc, RetNone, after, pb)
    ELSE IF has_row(summary, url_hash)
    THEN Outcome(NoExc, Ret(get_row(summary, url_hash).markdown), after, idle)
    ELSE reprocess(after, summary, disk, url, html_content, response)

-----------------------------------------------------------------------------
(* The processors package: dispatch predicates and identifiers *)

\* needle in s, on texts cut into tokens
Contains(s, needle) ==
    \E i \in 1..(Len(s) - Len(needle) + 1) : SubSeq(s, i, i + Len(needle) - 1) = needle

\* arxiv.is_arxiv_url
is_arxiv_url(url) == Contains(MapLower(url), <<"arxiv.org">>)

\* twitter.is_twitter_url
is_twitter_url(url) ==
    \/ Contains(MapLower(url), <<"twitter.com">>)
    \/ Contains(MapLower(url), <<"https://", "x.com">>)

\* youtube.is_youtube_url
is_youtube_url(url) == Contains(MapLower(url), <<"youtube.com">>)

\* \d+ and \d+\.\d+ on the tokens the URLs use
IsDigits(t) == t \in {"1", "2"}
IsArxivId(t) == t \in {"1234.5678"}
IsWordToken(t) == t \in {"u", "1", "2"}

\* arxiv.extract_arxiv_id: arxiv\.org/abs/(\d+\.\d+) or arxiv\.org/pdf/(\d+\.\d+)
extract_arxiv_id(url) ==
    LET at == {i \in 1..(Len(url) - 2) :
                  /\ url[i] = "arxiv.org"
                  /\ url[i + 1] \in {"/abs/", "/pdf/"}
                  /\ IsArxivId(url[i + 2])}
    IN IF at = {}
       THEN [exc |-> Exc("ValueError", "Could not extract arXiv ID", 0), ret |-> None]
       ELSE [exc |-> NoExc, ret |-> url[(CHOOSE i \in at : \A j \in at : i <= j) + 2]]

\* twitter.extract_tweet_id: (?:twitter\.com|x\.com)/\w+/status(es)?/(\d+)
extract_tweet_id(url) ==
    LET at == {i \in 1..(Len(url) - 4) :
                  /\ url[i] \in {"twitter.com", "x.com"}
                  /\ url[i + 1] = "/"
                  /\ IsWordToken(url[i + 2])
                  /\ url[i + 3] \in {"/status/", "/statuses/"}
                  /\ IsDigits(url[i + 4])}
    IN IF at = {}
       THEN [exc |-> Exc("ValueError", "Could not extract Tweet ID", 0), ret |-> None]
       ELSE [exc |-> NoExc, ret |-> url[(CHOOSE i \in at : \A j \in at : i <= j) + 4]]

\* youtube.extract_video_id: parse_qs(query).get("v"), None when there is none
extract_video_id(url) ==
    LET at == {i \in 1..(Len(url) - 1) : url[i] = "?v="}
    IN IF at = {} THEN None ELSE url[(CHOOSE i \in at : \A j \in at : i <= j) + 1]

-----------------------------------------------------------------------------
(* The completion service and the notes of the processors package *)

\* What the structured completion answers: a failure, or an output whose
\* folder_classification.path is one of constants.FOLDER_STRUCTURE.
Folders == {"Research/Technology", "AI/Ethics"}
LlmAnswers == {[ok |-> FALSE, path |-> ""]} \cup {[ok |-> TRUE, path |-> f] : f \in Folders}

\* llm.call_structured_llm(url_hash, content, system, user, ExpectedOutput)
call_structured_llm(content, answer) ==
    IF answer.ok
    THEN [exc |-> NoExc,
          ret |-> [path |-> answer.path, title |-> <<"E", "x", " ", "T">>,
                   summary |-> "S", tags |-> << <<"T", "a", "g", " ", "1">> >>]]
    ELSE [exc |-> Exc("OpenAIError", "completion failed", 0),
          ret |-> [path |-> "", title |-> <<>>, summary |-> "", tags |-> <<>>]]

\* str.strip() of a tag
RECURSIVE StripSpaces(_)
StripSpaces(s) ==
    IF s = <<>> THEN <<>>
    ELSE IF IsSpace(Head(s)) THEN StripSpaces(Tail(s))
    ELSE IF IsSpace(s[Len(s)]) THEN StripSpaces(SubSeq(s, 1, Len(s) - 1))
    ELSE s

\* A normalization that does not strip the tag.
normalize_tag_unstripped(tag) ==
    [i \in 1..Len(tag) |-> IF tag[i] = " " THEN "-" ELSE lower(tag[i])]

\* base.normalize_tag: tag.lower().strip().replace(" ", "-")
normalize_tag(tag) ==
    LET t == StripSpaces(MapLower(tag))
    IN [i \in 1..Len(t) |-> IF t[i] = " " THEN "-" ELSE t[i]]

\* a rendered note
Note(template, url, title, output_obj) ==
    [template |-> template, url |-> url, title |-> title,
     summary |-> output_obj.summary,
     tags |-> [i \in 1..Len(output_obj.tags) |-> normalize_tag(output_obj.tags[i])],
     output_path |-> output_obj.path]

\* os.path.join(KNOWLEDGE_BASE_PATH, folder, name)
in_folder(folder, name) == <<folder>> \o name

\* A fetch that reports every status other than 200 in the same words.
get_content_flat(url, response) ==
    IF response.status_code = 200
    THEN [exc |-> NoExc, ret |-> response.text]
    ELSE [exc |-> Exc("ValueError", "StatusCode", response.status_code), ret |-> None]

\* urls.get_content(url): one GET, a typed failure for every status but 200
get_content(url, response) ==
    IF response.status_code = 200
    THEN [exc |-> NoExc, ret |-> response.text]
    ELSE [exc |-> CASE response.status_code = 403 -> Exc("ValueError", "Status=403", 0)
                    [] response.status_code = 404 -> Exc("ValueError", "URL Missing", 0)
                    [] response.status_code = 500 -> Exc("ValueError", "Service problem", 0)
                    [] OTHER -> Exc("ValueError", "StatusCode", response.status_code),
          ret |-> None]

\* The directories the processors work on.
WDisk(pd, kn, kd, rp, rm, tn) ==
    [page_dirs |-> pd, kb_notes |-> kn, kb_dirs |-> kd, research_papers |-> rp,
     research_md |-> rm, twitter_notes |-> tn]

\* What a processor returns: None, the rendered markdown or a transcript.
NoNote ==
    [template |-> "", url |-> <<>>, title |-> <<>>, summary |-> "", tags |-> <<>>,
     output_path |-> ""]
ReturnsNone == [kind |-> "None", note |-> NoNote]
ReturnsMarkdown(note) == [kind |-> "markdown", note |-> note]
ReturnsTranscript == [kind |-> "transcript", note |-> NoNote]

\* What a processor hands back: an exception or a value, the directories as
\* it leaves them, and how many network requests and completion calls it made.
Done(exc, ret, wd, gets, llm) ==
    [exc |-> exc, ret |-> ret, wd |-> wd, gets |-> gets, llm |-> llm]

\* What the outside answers during one call.
World(response, answer, api, transcript) ==
    [response |-> response, answer |-> answer, api |-> api, transcript |-> transcript]

\* os.rename(src, dst) of a directory fails when dst exists and is not empty
remove(dir, name) == {f \in dir : f.name # name}

\* default.process_url(url, html_content)
process_url(wd, url, html_content, world) ==
    LET url_hash == hexdigest(url)
        \* os.makedirs(WEB_PAGE_PATH/<hash>, exist_ok=True)
        d0 == IF exists(wd.page_dirs, url_hash) THEN wd.page_dirs
              ELSE write(wd.page_dirs, url_hash, None)
        fetch == ~Truthy(html_content)
        got == get_content(url, world.response)
        html == IF fetch THEN got.ret ELSE html_content
        gets == IF fetch THEN 1 ELSE 0
        \* raw.html
        d1 == write(d0, url_hash, html)
        readability_obj == simple_json_from_html_string(html)
        completion == call_structured_llm(html, world.answer)
        output_obj == completion.ret
        note == Note("article.md", url, output_obj.title, output_obj)
        filename == get_filename(output_obj.title, url_hash)
        notes1 == write(wd.kb_notes, in_folder(output_obj.path, filename), note)
        target == in_folder(output_obj.path, url_hash)
    IN
    IF fetch /\ got.exc # NoExc
    THEN Done(got.exc, ReturnsNone, [wd EXCEPT !.page_dirs = d0], gets, 0)
    ELSE IF readability_obj.plain_content = None
    \* markdownify.markdownify(None)
    THEN Done(Exc("TypeError", "markdownify", 0), ReturnsNone,
              [wd EXCEPT !.page_dirs = d1], gets, 0)
    ELSE IF completion.exc # NoExc
    THEN Done(completion.exc, ReturnsNone, [wd EXCEPT !.page_dirs = d1], gets, 1)
    ELSE IF exists(wd.kb_dirs, target)
    THEN Done(Exc("OSError", "Directory not empty", 0), ReturnsNone,
              [wd EXCEPT !.page_dirs = d1, !.kb_notes = notes1], gets, 1)
    ELSE Done(NoExc, ReturnsNone,
              [wd EXCEPT !.page_dirs = remove(d1, url_hash), !.kb_notes = notes1,
                         !.kb_dirs = write(wd.kb_dirs, target, html)],
              gets, 1)

\* arxiv.process_arxiv_url(url): the arXiv API answers world.api, TRUE when
\* it knows the paper (entry_id then ends in the id that was asked for)
process_arxiv_url(wd, url, world) ==
    LET parsed == extract_arxiv_id(url)
        arxiv_id == <<parsed.ret>>
        pdf == arxiv_id \o <<".pdf">>
        have_pdf == exists(wd.research_papers, pdf)
        papers1 == IF have_pdf THEN wd.research_papers
                   ELSE write(wd.research_papers, pdf, "pdf")
        gets == IF have_pdf THEN 1 ELSE 2
        \* convert_pdf_to_markdown_marker
        md1 == write(wd.research_md, arxiv_id, "markdown")
        completion == call_structured_llm("markdown", world.answer)
        output_obj == completion.ret
        target == in_folder(output_obj.path, arxiv_id)
        title == <<"P", "a", "p", "e", "r">>
        note == Note("academic.md", url, title, output_obj)
        filename == arxiv_id \o <<"-">> \o get_filename(title, hexdigest(url))
        moved == [wd EXCEPT !.research_papers = papers1, !.research_md = md1]
    IN
    IF parsed.exc # NoExc THEN Done(parsed.exc, ReturnsNone, wd, 0, 0)
    ELSE IF ~world.api
    \* next(results) on an empty result
    THEN Done(Exc("StopIteration", "", 0), ReturnsNone, wd, 1, 0)
    ELSE IF completion.exc # NoExc THEN Done(completion.exc, ReturnsNone, moved, gets, 1)
    ELSE IF exists(wd.kb_dirs, target)
    THEN Done(Exc("OSError", "Directory not empty", 0), ReturnsNone, moved, gets, 1)
    ELSE Done(NoExc, ReturnsNone,
              [wd EXCEPT !.research_papers = remove(papers1, pdf),
                         !.research_md = remove(md1, arxiv_id),
                         !.kb_dirs = write(write(wd.kb_dirs, target, "markdown"),
                                           in_folder(output_obj.path, pdf), "pdf"),
                         !.kb_notes = write(wd.kb_notes,
                                            in_folder(output_obj.path, filename), note)],
              gets, 1)

\* twitter.extract_tweet_data_from_html: "<T>" is a page with a tweet article
\* and no media
extract_tweet_data_from_html(html_content, tweet_id) ==
    IF html_content = "<T>"
    THEN [exc |-> NoExc, text |-> "tweet text"]
    ELSE [exc |-> Exc("ValueError", "Could not find tweet content", 0), text |-> ""]

\* twitter.process_twitter_url(url, html_content, screenshot_data)
process_twitter_url(wd, url, html_content, screenshot_data) ==
    LET parsed == extract_tweet_id(url)
        tweet_id == parsed.ret
        tweet_data == extract_tweet_data_from_html(html_content, tweet_id)
        rendered == [summary |-> tweet_data.text, tags |-> <<>>, path |-> "", title |-> <<>>]
        json == Note("json", url, <<>>, rendered)
        markdown == Note("twitter.md", url, <<>>, rendered)
        notes1 == write(write(wd.twitter_notes, <<tweet_id, ".json">>, json),
                        <<"tweet-", tweet_id, ".md">>, markdown)
    IN
    IF parsed.exc # NoExc THEN Done(parsed.exc, ReturnsNone, wd, 0, 0)
    ELSE IF ~Truthy(html_content)
    THEN Done(Exc("ValueError", "HTML content is required", 0), ReturnsNone, wd, 0, 0)
    ELSE IF tweet_data.exc # NoExc THEN Done(tweet_data.exc, ReturnsNone, wd, 0, 0)
    ELSE Done(NoExc, ReturnsMarkdown(markdown), [wd EXCEPT !.twitter_notes = notes1], 0, 0)

\* youtube.get_video_metadata: the Data API answers world.api, TRUE when it
\* lists the video
get_video_metadata(video_id, api) ==
    IF api /\ video_id # None
    THEN [exc |-> NoExc, title |-> <<"V", "i", "d">>]
    ELSE [exc |-> Exc("ValueError", "No video found", 0), title |-> <<>>]

\* youtube.get_transcript: any failure of the transcript service becomes ""
get_transcript(video_id, transcript) == IF transcript THEN "transcript" ELSE ""

\* youtube.process_youtube_url(url, html_content)
process_youtube_url(wd, url, html_content, world) ==
    LET video_id == extract_video_id(url)
        metadata == get_video_metadata(video_id, world.api)
        transcript == get_transcript(video_id, world.transcript)
        completion == call_structured_llm(transcript, world.answer)
        output_obj == completion.ret
        note == Note("youtube.md", url, metadata.title, output_obj)
        filename == <<video_id, "-">> \o get_filename(metadata.title, hexdigest(url))
    IN
    IF metadata.exc # NoExc THEN Done(metadata.exc, ReturnsNone, wd, 1, 0)
    ELSE IF completion.exc # NoExc THEN Done(completion.exc, ReturnsNone, wd, 2, 1)
    ELSE Done(NoExc, ReturnsTranscript,
              [wd EXCEPT !.kb_notes = write(wd.kb_notes,
                                            in_folder(output_obj.path, filename), note)],
              2, 1)

-----------------------------------------------------------------------------
(* The watcher: listener.process_file *)

\* A capture file as the browser extension writes it: the keys it holds and
\* their values.
Capture(url, keys, html_content, screenshot) ==
    [url |-> url, keys |-> keys, html_content |-> html_content, screenshot |-> screenshot]

BothKeys == {"html_content", "screenshot"}
Captures ==
    { Capture(UrlArticle, BothKeys, None, None),
      Capture(UrlArticle, BothKeys, "<A>", None),
      Capture(UrlArticle, {}, None, None),
      Capture(UrlArxiv, {}, None, None),
      Capture(UrlTweet, BothKeys, "<T>", "png"),
      Capture(UrlVideo, {"html_content"}, None, None) }

\* for attempt in range(3)
Attempts == 3
\* if attempt < 2
LastRetry == 2

\* The read loop of process_file: reads[i] tells whether the i-th json.load
\* finds valid JSON. The loop has no break, so it goes on reading after a
\* successful parse.
RECURSIVE parse_loop(_, _, _)
parse_loop(attempt, reads, loaded) ==
    IF attempt = Attempts
    THEN [exc |-> NoExc, loaded |-> loaded, attempts |-> attempt]
    ELSE IF reads[attempt + 1]
    THEN parse_loop(attempt + 1, reads, TRUE)
    ELSE IF attempt < LastRetry
    THEN parse_loop(attempt + 1, reads, loaded)
    ELSE [exc |-> Exc("JSONDecodeError", "", 0), loaded |-> loaded, attempts |-> attempt + 1]

\* urlparse(url).netloc: what stands between the scheme and the path
IsScheme(t) == t \in {"https://", "http://"}
StartsPath(t) == t \in {"/", "/abs/", "/pdf/", "/status/", "/watch", "/page", "/article", "?v=", "?ref="}
RECURSIVE UpToPath(_)
UpToPath(s) ==
    IF s = <<>> \/ StartsPath(Head(s)) THEN <<>> ELSE <<Head(s)>> \o UpToPath(Tail(s))
netloc(url) ==
    IF url # <<>> /\ IsScheme(Head(url)) THEN UpToPath(Tail(url)) ELSE <<>>

\* processors.get_processor(url): the registry PROCESSORS looked up by host,
\* DefaultProcessor when the host is not in it
get_processor(url) ==
    CASE MapLower(netloc(url)) = <<"arxiv.org">> -> "arxiv"
      [] MapLower(netloc(url)) = <<"youtube.com">> -> "youtube"
      [] OTHER -> "generic"

\* bookmark_processor.is_arxiv_url
bp_is_arxiv_url(url) == Contains(MapLower(url), <<"arxiv.org">>)

\* bookmark_processor.is_twitter_url
bp_is_twitter_url(url) ==
    Contains(MapLower(url), <<"twitter.com">>) \/ Contains(MapLower(url), <<"x.com">>)

\* The branch bookmark_processor.bookmark takes for a URL; process_bookmark
\* then asks get_processor.
http_variant(url) ==
    IF bp_is_arxiv_url(url) THEN "arxiv"
    ELSE IF bp_is_twitter_url(url) THEN "twitter"
    ELSE get_processor(url)

\* A dispatch that asks only the registry of hosts.
variant_by_registry(url) == get_processor(url)

\* The branch process_file takes for a URL.
variant(url) ==
    IF is_arxiv_url(url) THEN "arxiv"
    ELSE IF is_twitter_url(url) THEN "twitter"
    ELSE IF is_youtube_url(url) THEN "youtube"
    ELSE "generic"

\* data[key] for the keys a branch reads
missing_key(data, needed) == \E k \in needed : k \notin data.keys

KeyError == Exc("KeyError", "", 0)

\* What process_file hands back: the exception it ends with, the watched
\* directory and the processors' directories as it leaves them, the branch it
\* dispatched to ("none" when it did not get that far), and what the
\* processor reported.
Handled(exc, dir, wd, dispatched, attempts, gets, llm, ret) ==
    [exc |-> exc, watch_dir |-> dir, wd |-> wd, dispatched |-> dispatched,
     attempts |-> attempts, gets |-> gets, llm |-> llm, ret |-> ret]

\* A process_file that clears the capture file away however the call ends.
process_file_sweeping(dir, wd, file_path, reads, world) ==
    LET parsed == parse_loop(0, reads, FALSE)
        data == read(dir, file_path)
        out == IF variant(data.url) = "generic"
               THEN process_url(wd, data.url, data.html_content, world)
               ELSE Done(Exc("ValueError", "", 0), ReturnsNone, wd, 0, 0)
    IN
    IF parsed.exc # NoExc
    THEN Handled(parsed.exc, remove(dir, file_path), wd, "none", parsed.attempts, 0, 0,
                 ReturnsNone)
    ELSE Handled(out.exc, remove(dir, file_path), out.wd, variant(data.url),
                 parsed.attempts, out.gets, out.llm, out.ret)

\* listener.process_file(file_path)
process_file(dir, wd, file_path, reads, world) ==
    LET parsed == parse_loop(0, reads, FALSE)
        data == read(dir, file_path)
        branch == variant(data.url)
        out == CASE branch = "arxiv" -> process_arxiv_url(wd, data.url, world)
                 [] branch = "twitter" ->
                        process_twitter_url(wd, data.url, data.html_content, data.screenshot)
                 [] branch = "youtube" ->
                        process_youtube_url(wd, data.url, data.html_content, world)
                 [] OTHER -> process_url(wd, data.url, data.html_content, world)
        needed == CASE branch = "arxiv" -> {}
                    [] branch = "twitter" -> {"html_content", "screenshot"}
                    [] OTHER -> {"html_content"}
    IN
    IF parsed.exc # NoExc
    THEN Handled(parsed.exc, dir, wd, "none", parsed.attempts, 0, 0, ReturnsNone)
    ELSE IF missing_key(data, needed)
    THEN Handled(KeyError, dir, wd, "none", parsed.attempts, 0, 0, ReturnsNone)
    ELSE IF out.exc # NoExc
    THEN Handled(out.exc, dir, out.wd, branch, parsed.attempts, out.gets, out.llm, out.ret)
    \* os.remove(file_path)
    ELSE Handled(NoExc, remove(dir, file_path), out.wd, branch, parsed.attempts,
                 out.gets, out.llm, out.ret)

\* The watched directory holds at most MaxFiles capture files at a time.
MaxFiles == 1
Paths == 1..MaxFiles
\* The runs explored hold at most MaxSubmissions capture files in all.
MaxSubmissions == 2

\* What the outside can answer to the processor a URL is dispatched to.
OneAnswer == [ok |-> TRUE, path |-> "Research/Technology"]
PageResponses == {r \in Responses : r.status_code \in {200, 404}}
Worlds(data) ==
    CASE variant(data.url) = "arxiv" ->
             {World(CHOOSE r \in PageResponses : TRUE, OneAnswer, FALSE, TRUE)}
                 \cup {World(CHOOSE r \in PageResponses : TRUE, a, TRUE, TRUE) : a \in LlmAnswers}
      [] variant(data.url) = "twitter" ->
             {World(CHOOSE r \in PageResponses : TRUE, OneAnswer, TRUE, TRUE)}
      [] variant(data.url) = "youtube" ->
             {World(CHOOSE r \in PageResponses : TRUE, OneAnswer, FALSE, TRUE)}
                 \cup {World(CHOOSE r \in PageResponses : TRUE, a, TRUE, t) :
                          a \in LlmAnswers, t \in BOOLEAN}
      [] OTHER ->
             IF Truthy(data.html_content) /\ "html_content" \in data.keys
             THEN {World(CHOOSE r \in PageResponses : TRUE, a, TRUE, TRUE) : a \in LlmAnswers}
             ELSE {World(r, a, TRUE, TRUE) : r \in PageResponses, a \in LlmAnswers}

QuietWorld == World(CHOOSE r \in PageResponses : TRUE, OneAnswer, TRUE, TRUE)

\* YouTubeTranscriptApi.get_transcript raised inside youtube.get_transcript:
\* the call reached the transcript step and the service did not answer.
transcript_failed(out, data, world) ==
    /\ out.dispatched = "youtube"
    /\ get_video_metadata(extract_video_id(data.url), world.api).exc = NoExc
    /\ ~world.transcript

\* The record of the last process_file call.
Handling(file_path, data, reads, out, before, world) ==
    [op |-> "process_file", file |-> file_path, url |-> data.url, keys |-> data.keys,
     html_content |-> data.html_content, reads |-> reads, exc |-> out.exc,
     dispatched |-> out.dispatched, attempts |-> out.attempts, gets |-> out.gets,
     llm |-> out.llm, returned |-> out.ret.kind,
     removed |-> ~exists(out.watch_dir, file_path),
     kb_unchanged |-> out.wd.kb_notes = kb_notes /\ out.wd.kb_dirs = kb_dirs,
     completed_before |-> before,
     transcript_failed |-> transcript_failed(out, data, world)]
NoHandled ==
    [op |-> "none", file |-> 0, url |-> <<>>, keys |-> {}, html_content |-> None,
     reads |-> [i \in 1..Attempts |-> TRUE], exc |-> NoExc, dispatched |-> "none",
     attempts |-> 0, gets |-> 0, llm |-> 0, returned |-> "None",
     removed |-> FALSE, kb_unchanged |-> TRUE, completed_before |-> FALSE,
     transcript_failed |-> FALSE]

CurrentWDisk ==
    WDisk(page_dirs, kb_notes, kb_dirs, research_papers, research_md, twitter_notes)

-----------------------------------------------------------------------------
(* The HTTP/CLI pipeline as a state machine *)

\* html_content as a caller passes it: absent, empty, or a page
HtmlArgs == {None, "", "<A>", "<B>"}

cached_page(dir, url_hash) ==
    IF exists(dir, html_name(url_hash)) THEN read(dir, html_name(url_hash)) ELSE None

cached_readability(dir, url_hash) ==
    IF exists(dir, json_name(url_hash)) THEN read(dir, json_name(url_hash)) ELSE NoObj

\* The record of a call: its arguments, what it raised or returned, what its
\* stages did, and the two cache entries as they were when it started.
Call(op, url, html_content, out) ==
    [op |-> op, url |-> url, url_hash |-> hexdigest(url), html_content |-> html_content,
     exc |-> out.exc, ret |-> out.ret, web |-> out.web, read |-> out.read,
     wrote |-> out.wrote,
     pre_page |-> cached_page(web_pages, hexdigest(url)),
     pre_readability |-> cached_readability(web_readability, hexdigest(url)),
     pre_bookmark |-> has_row(Bookmark, hexdigest(url)),
     pre_summary |-> IF has_row(Summary, hexdigest(url))
                     THEN Ret(get_row(Summary, hexdigest(url)).markdown) ELSE RetNone,
     like_reprocess |-> FALSE]

NoCall ==
    [op |-> "none", url |-> <<>>, url_hash |-> <<>>, html_content |-> None,
     exc |-> NoExc, ret |-> RetNone, web |-> NoWeb, read |-> NoRead,
     wrote |-> NoMarkdown, pre_page |-> None, pre_readability |-> NoObj,
     pre_bookmark |-> FALSE, pre_summary |-> RetNone, like_reprocess |-> FALSE]

Init ==
    /\ web_pages = {}
    /\ web_readability = {}
    /\ web_readability_html = {}
    /\ web_notes = {}
    /\ Bookmark = {}
    /\ WebPage = {}
    /\ Summary = {}
    /\ Error = {}
    /\ last = NoCall
    /\ watch_dir = {}
    /\ page_dirs = {}
    /\ kb_notes = {}
    /\ kb_dirs = {}
    /\ research_papers = {}
    /\ research_md = {}
    /\ twitter_notes = {}
    /\ completed = {}
    /\ lastw = NoHandled
    /\ submitted = 0
    /\ listener = [pc |-> "init", todo |-> {}, snapshot |-> {}, queue |-> <<>>,
                   processing |-> {}, passed |-> {}, logged |-> {}, observer |-> "idle",
                   handled |-> [kind |-> "none", path |-> 0, processed |-> FALSE],
                   changes |-> 0]
    /\ applied = [op |-> "none"]

Leave(out) ==
    /\ web_pages' = out.disk.pages
    /\ web_readability' = out.disk.readability
    /\ web_readability_html' = out.disk.readability_html
    /\ web_notes' = out.disk.notes
    /\ Bookmark' = out.tables.Bookmark
    /\ WebPage' = out.tables.WebPage
    /\ UNCHANGED <<Summary, Error, watch_vars, fn_vars>>

CurrentDisk == Disk(web_pages, web_readability, web_readability_html, web_notes)
CurrentTables == Tables(Bookmark, WebPage)

\* bookmark(url, html_content) on a URL of no special domain:
\* process_bookmark(url, html_content)
ProcessBookmark ==
    \E url \in GenericUrls, html_content \in HtmlArgs, response \in Responses :
      \E pb \in {process_bookmark(CurrentDisk, Str(url), html_content, response)} :
        \E out \in {Outcome(pb.exc, RetNone, CurrentTables, pb)} :
           /\ Leave(out)
           /\ last' = Call("process_bookmark", url, html_content, out)

\* process_generic_url(url, html_content)
ProcessGenericUrl ==
    \E url \in GenericUrls, html_content \in HtmlArgs, response \in Responses :
        \E out \in {process_generic_url(CurrentTables, Summary, CurrentDisk,
                                         url, html_content, response)} :
           /\ Leave(out)
           \* like_reprocess: the call ended as reprocess(url, html_content) ends
           /\ last' = [Call("process_generic_url", url, html_content, out) EXCEPT
                           !.like_reprocess =
                               out = reprocess(CurrentTables, Summary, CurrentDisk,
                                               url, html_content, response)]

\* reprocess(url, html_content)
Reprocess ==
    \E url \in GenericUrls, html_content \in HtmlArgs, response \in Responses :
        \E out \in {reprocess(CurrentTables, Summary, CurrentDisk,
                               url, html_content, response)} :
           /\ Leave(out)
           /\ last' = Call("reprocess", url, html_content, out)

Next == ProcessBookmark \/ ProcessGenericUrl \/ Reprocess

\* The record of a call the process died in.
Crashed(op, url) == [NoCall EXCEPT !.op = op, !.url = url, !.url_hash = hexdigest(url)]

\* The process dies in get_webpage on a cache miss, while it stores the page
\* it was given or has fetched: before the open, between the open and the
\* close, or after the close.
CrashInGetWebpage ==
    \E url \in GenericUrls, html_content \in HtmlArgs, response \in Responses :
        LET html_path == html_name(hexdigest(url))
            text == IF Truthy(html_content) THEN html_content ELSE response.text
        IN  /\ ~exists(web_pages, html_path)
            /\ Truthy(html_content) \/ response.status_code = 200
            /\ \E left \in {web_pages, write(web_pages, html_path, text)}
                       \cup {write(web_pages, html_path, c) : c \in Cuts(text)} :
                   web_pages' = left
            /\ last' = Crashed("crash in get_webpage", url)
            /\ UNCHANGED <<web_readability, web_readability_html, web_notes, Bookmark,
                           WebPage, Summary, Error, watch_vars, fn_vars>>

\* The process dies in get_readability on a cache miss, the page stage
\* behind it, while it stores the extracted object: before the open, between
\* the open and the close of the JSON file, or after its close.
CrashInGetReadability ==
    \E url \in GenericUrls, html_content \in HtmlArgs, response \in Responses :
        \E web \in {get_webpage(web_pages, hexdigest(url), url, html_content, response)} :
            LET readability_path == json_name(hexdigest(url))
                content_obj == simple_json_from_html_string(web.ret)
            IN  /\ web.exc = NoExc
                /\ ~exists(web_readability, readability_path)
                /\ content_obj.plain_content # None
                /\ web_pages' = web.dir
                /\ \E left \in {web_readability,
                                write(web_readability, readability_path, CutJson),
                                write(web_readability, readability_path, content_obj)} :
                       web_readability' = left
                /\ last' = Crashed("crash in get_readability", url)
                /\ UNCHANGED <<web_readability_html, web_notes, Bookmark, WebPage,
                               Summary, Error, watch_vars, fn_vars>>

NextCrash == ProcessBookmark \/ CrashInGetWebpage \/ CrashInGetReadability

SpecCrash == Init /\ [][NextCrash]_vars

Spec == Init /\ [][Next]_vars

-----------------------------------------------------------------------------
(* Properties of the stage caches and of the record store *)

PageStored == exists(web_pages, html_name(last.url_hash))
ReadabilityStored == exists(web_readability, json_name(last.url_hash))

\* C2: when a raw page (an extraction) is stored for the fingerprint, the
\* fetch (extract) stage returns the stored payload, issues no GET (does not
\* run the extractor), and the stored payload is the same after the call.
C2_StoredArtifactIsReturned ==
    /\ (last.web.called /\ last.pre_page # None) =>
           /\ last.web.exc = NoExc
           /\ last.web.ret = last.pre_page
           /\ ~last.web.get
           /\ cached_page(web_pages, last.url_hash) = last.pre_page
    /\ (last.read.called /\ last.pre_readability # NoObj) =>
           /\ last.read.exc = NoExc
           /\ last.read.ret = last.pre_readability
           /\ ~last.read.extracted
           /\ cached_readability(web_readability, last.url_hash) = last.pre_readability

\* A call that found both artifacts stored and was handed other content.
C2_Witness ==
    /\ last.web.called /\ last.read.called
    /\ last.pre_page # None /\ last.pre_readability # NoObj
    /\ Truthy(last.html_content) /\ last.html_content # last.pre_page

\* C3, in one state: a stage whose compute step failed hands its exception to
\* the caller and leaves no artifact for the fingerprint.
C3_FailureStoresNothing ==
    /\ (last.web.called /\ last.web.exc # NoExc) =>
           /\ last.exc = last.web.exc
           /\ last.web.get
           /\ ~PageStored
    /\ (last.read.called /\ last.read.exc # NoExc) =>
           /\ last.exc = last.read.exc
           /\ last.read.extracted
           /\ ~ReadabilityStored

\* C3, from one call to the next: the call that follows a failed compute step
\* for the same fingerprint runs that step again (a GET when it is given no
\* content, the extractor when it gets as far as the extract stage).
C3_NextCallComputesAgain ==
    /\ (/\ last.web.called /\ last.web.exc # NoExc
        /\ last'.web.called /\ last'.url_hash = last.url_hash
        /\ ~Truthy(last'.html_content)) => last'.web.get
    /\ (/\ last.read.called /\ last.read.exc # NoExc
        /\ last'.read.called /\ last'.url_hash = last.url_hash) => last'.read.extracted

\* C3: a failed compute step (a response other than 200, an extraction with
\* no content) raises to the caller, persists nothing for the stage and the
\* fingerprint, and is run again by the next call for that fingerprint.
C3_FailedComputeIsRetried == [](C3_FailureStoresNothing) /\ [][C3_NextCallComputesAgain]_vars

\* An extraction failed on a page that a successful GET had just stored.
C3_Witness ==
    /\ last.read.called /\ last.read.exc # NoExc
    /\ last.web.get /\ PageStored /\ ~ReadabilityStored

\* C4: when the caller supplies raw content, the fetch stage issues no GET,
\* returns the supplied content, and the stored raw page for the fingerprint
\* is the supplied content afterwards, whatever was stored before.
C4_SuppliedContentIsAuthoritative ==
    (last.web.called /\ Truthy(last.html_content)) =>
        /\ ~last.web.get
        /\ last.web.ret = last.html_content
        /\ cached_page(web_pages, last.url_hash) = last.html_content

\* C5: when process_generic_url raises, the Bookmark row of the fingerprint
\* has left its initial status (it is Failed) and the Error table has a row
\* for the fingerprint.
C5_FailureIsRecorded ==
    (last.op = "process_generic_url" /\ last.exc # NoExc) =>
        /\ has_row(Bookmark, last.url_hash)
        /\ get_row(Bookmark, last.url_hash).status # StatusNew
        /\ has_row(Error, last.url_hash)

\* C7: a call that ran to the end and wrote the note leaves a Bookmark row
\* that has left its initial status (it is Completed) and holds the title;
\* and every Bookmark row that has left its initial status has a note on disk.
C7_SuccessIsRecorded ==
    /\ (last.exc = NoExc /\ last.wrote # NoMarkdown) =>
           /\ has_row(Bookmark, last.url_hash)
           /\ get_row(Bookmark, last.url_hash).status # StatusNew
           /\ get_row(Bookmark, last.url_hash).title = last.wrote.title
    /\ \A b \in Bookmark :
           b.status # StatusNew => \E f \in web_notes : f.data.url_hash = b.url_hash

-----------------------------------------------------------------------------
(* The error ledger: the table models.Error *)

\* The exception texts a row of the Error table can carry.
ErrorTexts == {"first failure", "later failure"}

\* models.Error.create(url_hash=..., url=..., title=..., exception=...)
ErrorCreate ==
    \E url \in GenericUrls, exception \in ErrorTexts :
        \E c \in {create(Error, [url_hash |-> hexdigest(url), url |-> url,
                                 title |-> <<>>, exception |-> exception])} :
           /\ Error' = c.table
           /\ last' = Call("Error.create", url, None,
                           Outcome(c.exc, RetNone, CurrentTables,
                                   [disk |-> CurrentDisk, web |-> NoWeb, read |-> NoRead,
                                    wrote |-> NoMarkdown]))
           /\ UNCHANGED <<web_pages, web_readability, web_readability_html, web_notes,
                          Bookmark, WebPage, Summary, watch_vars, fn_vars>>

\* A row of the Summary table for a URL: the markdown of its finished note.
SummaryRow(url) ==
    [url_hash |-> hexdigest(url), url |-> url,
     markdown |-> generate_markdown(url, hexdigest(url), <<"E", "x", " ", "T">>, "text of A")]

\* models.Summary.create(...): the table's own insert; no function of the
\* program calls it, the rows come from outside.
SummaryCreate ==
    \E url \in GenericUrls :
        \E c \in {create(Summary, SummaryRow(url))} :
           /\ Summary' = c.table
           /\ last' = Call("Summary.create", url, None,
                           Outcome(c.exc, RetNone, CurrentTables,
                                   [disk |-> CurrentDisk, web |-> NoWeb, read |-> NoRead,
                                    wrote |-> NoMarkdown]))
           /\ UNCHANGED <<web_pages, web_readability, web_readability_html, web_notes,
                          Bookmark, WebPage, Error, watch_vars, fn_vars>>

NextResubmit == ProcessGenericUrl \/ SummaryCreate

SpecResubmit == Init /\ [][NextResubmit]_vars

NextLedger == ProcessGenericUrl \/ Reprocess \/ ErrorCreate

SpecLedger == Init /\ [][NextLedger]_vars

OneRowPerFingerprint ==
    \A r1, r2 \in Error : r1.url_hash = r2.url_hash => r1 = r2

FirstRowStays ==
    /\ \A r \in Error : r \in Error'
    /\ (last'.op = "Error.create" /\ has_row(Error, last'.url_hash)) => Error' = Error

-----------------------------------------------------------------------------
(* The watcher as a state machine *)

\* The browser extension writes a capture file into the watched directory.
CaptureWrite ==
    \E p \in Paths, c \in Captures :
        /\ ~exists(watch_dir, p)
        /\ submitted < MaxSubmissions
        /\ watch_dir' = write(watch_dir, p, c)
        /\ submitted' = submitted + 1
        /\ UNCHANGED <<page_dirs, kb_notes, kb_dirs, research_papers, research_md,
                       twitter_notes, completed, lastw, listener, core_vars, fn_vars>>

\* FileChangeHandler.on_created / process_existing_files: process_file on a
\* matching file of the watched directory.
ProcessFile ==
    \E f \in watch_dir, reads \in [1..Attempts -> BOOLEAN] :
      \* the outside is asked only when the file parsed
      \E world \in IF reads[Attempts] THEN Worlds(f.data) ELSE {QuietWorld} :
        \E out \in {process_file(watch_dir, CurrentWDisk, f.name, reads, world)},
           url_hash \in {hexdigest(f.data.url)} :
           /\ watch_dir' = out.watch_dir
           /\ page_dirs' = out.wd.page_dirs
           /\ kb_notes' = out.wd.kb_notes
           /\ kb_dirs' = out.wd.kb_dirs
           /\ research_papers' = out.wd.research_papers
           /\ research_md' = out.wd.research_md
           /\ twitter_notes' = out.wd.twitter_notes
           /\ completed' = IF out.exc = NoExc THEN completed \cup {url_hash} ELSE completed
           /\ lastw' = Handling(f.name, f.data, reads, out, url_hash \in completed, world)
           /\ UNCHANGED <<submitted, listener, core_vars, fn_vars>>

NextWatcher == CaptureWrite \/ ProcessFile

SpecWatcher == Init /\ [][NextWatcher]_vars


-----------------------------------------------------------------------------
(* Properties of the watcher *)

Handles == lastw.op = "process_file"
ParseFailed == lastw.exc.type = "JSONDecodeError"
SomeReadValid == \E i \in 1..Attempts : lastw.reads[i]

\* C1: a submission of a URL whose fingerprint has completed, with no raw
\* content supplied, issues no network request and no completion call.
C1_SecondRunIsFree ==
    (/\ Handles /\ lastw.dispatched = "generic"
     /\ lastw.completed_before /\ ~Truthy(lastw.html_content)) =>
        lastw.gets = 0 /\ lastw.llm = 0

\* C8: process_file reads the file at most three times; when the first read is
\* invalid and a read within the three is valid, the call does not end in a
\* parse error, and the file is removed once the processor has returned; when
\* all three reads are invalid the call raises the parse error, dispatches to
\* no processor and leaves the file.
C8_RetryLaw ==
    Handles =>
        /\ lastw.attempts <= Attempts
        /\ (~lastw.reads[1] /\ SomeReadValid) =>
               /\ ~ParseFailed
               /\ lastw.exc = NoExc => lastw.removed
        /\ ~SomeReadValid =>
               ParseFailed /\ lastw.dispatched = "none" /\ ~lastw.removed

\* C9, in one state: the file is gone after a call only when the call
\* dispatched to a processor and nothing was raised; after a call that raised
\* the file is still in the watched directory.
C9_RemovedOnlyOnReturn ==
    Handles =>
        /\ lastw.removed => (lastw.exc = NoExc /\ lastw.dispatched # "none")
        /\ lastw.exc # NoExc => ~lastw.removed

\* C9, from one state to the next: a step that takes a file out of the watched
\* directory is a process_file call whose processor returned without raising.
C9_RemovalStep ==
    (\E f \in watch_dir : f \notin watch_dir') =>
        /\ lastw'.exc = NoExc /\ lastw'.dispatched # "none" /\ lastw'.removed
        /\ \A f \in watch_dir : f \notin watch_dir' => f.name = lastw'.file

\* C9: a capture file is deleted only after the processor it was dispatched to
\* has returned without raising; when parsing or processing raises, the file
\* is still in the watched directory afterwards.
C9_DeleteOnlyAfterSuccess == [](C9_RemovedOnlyOnReturn) /\ [][C9_RemovalStep]_vars

\* A processor raised after the file had parsed, and the file stayed.
C9_Witness ==
    /\ Handles /\ lastw.dispatched # "none" /\ lastw.exc # NoExc
    /\ ~lastw.removed /\ exists(watch_dir, lastw.file)

\* C10: a submission of a URL whose fingerprint has completed raises nothing,
\* issues no network request and no completion call, and leaves the notes and
\* the relocated artifacts of the knowledge base as they were.
C10_ResubmissionIsNoOp ==
    (Handles /\ lastw.completed_before /\ lastw.dispatched # "none") =>
        /\ lastw.exc = NoExc
        /\ lastw.gets = 0 /\ lastw.llm = 0
        /\ lastw.kb_unchanged

-----------------------------------------------------------------------------
(* DirectoryListener: the startup sweep, the observer and its handler *)

\* --prefix, and the names of the files written into the watched directory
ListenerPrefix == "bm_"
file_name(path) ==
    CASE path = 1 -> <<"bm_", "1", ".json">>
      [] path = 2 -> <<"bm_", "2", ".json">>
      [] OTHER    -> <<"tmp_", "1", ".json">>
ListenerPaths == {1, 2, 3}

\* FileChangeHandler.is_valid_file(path)
is_valid_file(path) ==
    lower(file_name(path)[3]) = ".json" /\ file_name(path)[1] = ListenerPrefix

\* directory.glob(f"{prefix}*.json") as process_existing_files sees it: the
\* matching files that are there when the iteration starts
glob(dir) ==
    {f.name : f \in {g \in dir : file_name(g.name)[1] = ListenerPrefix
                                   /\ file_name(g.name)[3] = ".json"}}

\* The captures written: one that its processor accepts, one that fails.
GoodCapture == Capture(UrlTweet, BothKeys, "<T>", "png")
BadCapture == Capture(UrlArticle, {}, None, None)
ListenerCaptures == {GoodCapture, BadCapture}

\* The runs explored hold at most MaxChanges writes into the directory.
MaxChanges == 3

\* An observer that is started together with the sweep.
observer_running_early(pc) == pc \in {"sweep", "watching"}

\* DirectoryListener.start: the observer is scheduled and started after
\* process_existing_files has returned; events are delivered from then on.
observer_running(pc) == pc = "watching"

\* A sweep that an exception ends.
after_file_aborting(todo, path, exc) == IF exc = NoExc THEN todo \ {path} ELSE {}

\* process_existing_files: the loop goes on with the next file, whether
\* process_file returned or raised (except Exception: logging.error).
after_file(todo, path, exc) == todo \ {path}

\* FileChangeHandler.on_created(event) calls process_file
on_created(path) == is_valid_file(path)

\* FileChangeHandler.on_modified(event) calls process_file: never, it logs.
on_modified(path) == FALSE

Event(kind, path) == [kind |-> kind, path |-> path]

\* The events the observer queues for a change in the directory.
emit(lst, kind, path) ==
    IF observer_running(lst.pc) /\ lst.observer # "dead"
    THEN Append(lst.queue, Event(kind, path))
    ELSE lst.queue

\* Another program writes a new file into the directory.
FileCreated ==
    \E path \in ListenerPaths, c \in ListenerCaptures :
        /\ listener.changes < MaxChanges
        /\ ~exists(watch_dir, path)
        /\ watch_dir' = write(watch_dir, path, c)
        /\ listener' = [listener EXCEPT !.changes = @ + 1,
                                        !.queue = emit(listener, "created", path)]
        /\ UNCHANGED <<page_dirs, kb_notes, kb_dirs, research_papers, research_md,
                       twitter_notes, completed, lastw, submitted, core_vars, fn_vars>>

\* Another program writes an existing file of the directory anew.
FileModified ==
    \E f \in watch_dir, c \in ListenerCaptures :
        /\ listener.changes < MaxChanges
        /\ c # f.data
        /\ watch_dir' = write(watch_dir, f.name, c)
        /\ listener' = [listener EXCEPT !.changes = @ + 1,
                                        !.queue = emit(listener, "modified", f.name)]
        /\ UNCHANGED <<page_dirs, kb_notes, kb_dirs, research_papers, research_md,
                       twitter_notes, completed, lastw, submitted, core_vars, fn_vars>>

\* DirectoryListener.start up to the first file of process_existing_files
Start ==
    /\ listener.pc = "init"
    /\ listener' = [listener EXCEPT !.pc = "sweep", !.todo = glob(watch_dir),
                                    !.snapshot = glob(watch_dir)]
    /\ UNCHANGED <<watch_dir, page_dirs, kb_notes, kb_dirs, research_papers, research_md,
                   twitter_notes, completed, lastw, submitted, core_vars, fn_vars>>

Job(by, path) == [by |-> by, path |-> path]
Jobs(by) == {j \in listener.processing : j.by = by}

AllValid == [i \in 1..Attempts |-> TRUE]

\* process_file(path) as a thread of the listener runs it; open() raises when
\* the file is gone
run_process_file(path) ==
    IF exists(watch_dir, path)
    THEN process_file(watch_dir, CurrentWDisk, path, AllValid, QuietWorld)
    ELSE Handled(Exc("FileNotFoundError", "", 0), watch_dir, CurrentWDisk, "none", 1, 0, 0,
                 ReturnsNone)

\* What a process_file call of the listener leaves.
Processed(path, out) ==
    /\ watch_dir' = out.watch_dir
    /\ page_dirs' = out.wd.page_dirs
    /\ kb_notes' = out.wd.kb_notes
    /\ kb_dirs' = out.wd.kb_dirs
    /\ research_papers' = out.wd.research_papers
    /\ research_md' = out.wd.research_md
    /\ twitter_notes' = out.wd.twitter_notes
    /\ IF exists(watch_dir, path)
       THEN LET data == read(watch_dir, path)
            IN  /\ completed' = IF out.exc = NoExc
                                THEN completed \cup {hexdigest(data.url)} ELSE completed
                /\ lastw' = Handling(path, data, AllValid, out,
                                     hexdigest(data.url) \in completed, QuietWorld)
       ELSE UNCHANGED <<completed, lastw>>
    /\ UNCHANGED <<submitted, core_vars, fn_vars>>

\* process_existing_files: process_file is called on the next file
SweepBegin ==
    \E path \in listener.todo :
        /\ listener.pc = "sweep" /\ Jobs("sweep") = {}
        /\ listener' = [listener EXCEPT !.processing = @ \cup {Job("sweep", path)},
                                        !.passed = @ \cup {path}]
        /\ UNCHANGED <<watch_dir, page_dirs, kb_notes, kb_dirs, research_papers,
                       research_md, twitter_notes, completed, lastw, submitted,
                       core_vars, fn_vars>>

\* process_existing_files: that call returns or raises
SweepEnd ==
    \E job \in Jobs("sweep") :
        \E out \in {run_process_file(job.path)} :
            /\ Processed(job.path, out)
            /\ listener' = [listener EXCEPT
                   !.processing = @ \ {job},
                   !.todo = after_file(@, job.path, out.exc),
                   !.logged = IF out.exc = NoExc THEN @ ELSE @ \cup {job.path}]

\* DirectoryListener.start: observer.schedule and observer.start, once
\* process_existing_files has returned
StartObserver ==
    /\ listener.pc = "sweep" /\ listener.todo = {} /\ Jobs("sweep") = {}
    /\ listener' = [listener EXCEPT !.pc = "watching"]
    /\ UNCHANGED <<watch_dir, page_dirs, kb_notes, kb_dirs, research_papers, research_md,
                   twitter_notes, completed, lastw, submitted, core_vars, fn_vars>>

\* The observer thread takes the next event off its queue and calls the
\* handler: on_created or on_modified.
HandleBegin ==
    /\ observer_running(listener.pc) /\ listener.observer = "idle"
    /\ listener.queue # <<>>
    /\ LET event == Head(listener.queue)
           calls == IF event.kind = "created" THEN on_created(event.path)
                    ELSE on_modified(event.path)
       IN  listener' = [listener EXCEPT
               !.queue = Tail(@),
               !.observer = IF calls THEN "busy" ELSE "idle",
               !.processing = IF calls THEN @ \cup {Job("observer", event.path)} ELSE @,
               !.passed = IF calls THEN @ \cup {event.path} ELSE @,
               !.handled = [kind |-> event.kind, path |-> event.path, processed |-> calls]]
    /\ UNCHANGED <<watch_dir, page_dirs, kb_notes, kb_dirs, research_papers, research_md,
                   twitter_notes, completed, lastw, submitted, core_vars, fn_vars>>

\* The process_file call of the handler returns or raises. An exception
\* leaves the handler uncaught; the observer thread goes on or ends with it,
\* as the watchdog release has it.
HandleEnd ==
    \E job \in Jobs("observer") :
        \E out \in {run_process_file(job.path)},
           then \in {"idle", "dead"} :
            /\ out.exc = NoExc => then = "idle"
            /\ Processed(job.path, out)
            /\ listener' = [listener EXCEPT !.processing = @ \ {job},
                                            !.observer = then]

NextListener ==
    \/ FileCreated
    \/ FileModified
    \/ Start
    \/ SweepBegin
    \/ SweepEnd
    \/ StartObserver
    \/ HandleBegin
    \/ HandleEnd

SpecListener == Init /\ [][NextListener]_vars

-----------------------------------------------------------------------------
(* The functions of the program, applied to inputs of bounded size *)

\* A behaviour applies one function to one input; the functions whose claims
\* compare two applications (the fetch, the fingerprint, the file name) are
\* applied again and again.

\* URL texts: a scheme, a host and a path with a query, cut into tokens so
\* that every text the predicates look for is a run of whole tokens.
Schemes == {"https://", "http://"}
HostNames ==
    { <<"arxiv.org">>, <<"ARXIV.ORG">>, <<"www.", "arxiv.org">>, <<"x.com">>,
      <<"twitter.com">>, <<"youtube.com">>, <<"www.", "youtube.com">>,
      <<"example.com">>, <<"Example.com">>, <<"dropbo", "x.com">> }
PathsAndQueries ==
    { <<>>, <<"/abs/", "1234.5678">>, <<"/pdf/", "1234.5678">>,
      <<"/", "u", "/status/", "1">>, <<"/watch", "?v=", "abc">>, <<"/page">>,
      <<"/article">>, <<"/page", "?ref=", "arxiv.org">>, <<"/", "youtube.com">>,
      <<"/page", "?ref=", "twitter.com">> }
UrlTexts == {<<s>> \o h \o q : s \in Schemes, h \in HostNames, q \in PathsAndQueries}

Variants == {"arxiv", "twitter", "youtube", "generic"}

\* The dispatch of the watcher and of the HTTP entry point, applied to a URL.
ApplyDispatch ==
    \E url \in UrlTexts :
        /\ applied.op = "none"
        /\ applied' = [op |-> "dispatch", url |-> url, listener |-> variant(url),
                       http |-> http_variant(url)]
        /\ UNCHANGED <<core_vars, watch_vars>>

\* The status codes a server answers with, and its answers.
FetchCodes == {200, 301, 403, 404, 418, 500, 503}
FetchResponses ==
    {[status_code |-> c, text |-> IF c = 200 THEN "<A>" ELSE ""] : c \in FetchCodes}

\* urls.get_content and bookmark_processor.get_webpage (nothing stored, no
\* content supplied), applied to a URL and the answer of the server.
ApplyFetch ==
    \E url \in GenericUrls, response \in FetchResponses :
        /\ applied.op \in {"none", "fetch"}
        /\ applied' = [op |-> "fetch", url |-> url, status |-> response.status_code,
                       content |-> get_content(url, response),
                       page |-> get_webpage({}, hexdigest(url), url, None, response)]
        /\ UNCHANGED <<core_vars, watch_vars>>

\* The URL texts fingerprints are taken of.
HashUrls ==
    {UrlArticle, UrlArticleUpper, UrlPage, UrlRef5, UrlRef105, UrlArxiv, UrlTweet, UrlVideo}

\* llm.get_url_hash applied to the text of a URL.
ApplyHash ==
    \E url \in HashUrls :
        /\ applied.op \in {"none", "hash"}
        /\ applied' = [op |-> "hash", url |-> url, hashed |-> get_url_hash(Str(url))]
        /\ UNCHANGED <<core_vars, watch_vars>>

\* The characters of a text, U+2603 one the vocabulary has no token for, and
\* U+FFFD, which stands in a decoded text for bytes that are no character.
Chars == {"a", "b", "U+2603"}
Replacement == "U+FFFD"
Alphabet == Chars \cup {Replacement}

\* str.encode("utf-8") of one character
utf8(ch) ==
    CASE ch = "a" -> <<"61">>
      [] ch = "b" -> <<"62">>
      [] ch = "U+2603" -> <<"E2", "98", "83">>
      [] ch = "U+FFFD" -> <<"EF", "BF", "BD">>

RECURSIVE Flatten(_)
Flatten(ss) == IF ss = <<>> THEN <<>> ELSE Head(ss) \o Flatten(Tail(ss))

IsPrefix(p, t) == Len(p) <= Len(t) /\ SubSeq(t, 1, Len(p)) = p

\* The merges of the byte-pair vocabulary, by rank (0: the pair is no token).
\* Every byte is a token; "ab", the first two bytes of U+2603 and the three
\* bytes of U+FFFD are tokens too.
MergeRank(l, r) ==
    CASE l = <<"61">> /\ r = <<"62">> -> 1
      [] l = <<"E2">> /\ r = <<"98">> -> 2
      [] l = <<"EF">> /\ r = <<"BF">> -> 3
      [] l = <<"EF", "BF">> /\ r = <<"BD">> -> 4
      [] OTHER -> 0

\* Byte-pair encoding: merge the adjacent pair of least rank, leftmost first,
\* until no adjacent pair is a token.
RECURSIVE bpe(_)
bpe(parts) ==
    LET at == {i \in 1..(Len(parts) - 1) : MergeRank(parts[i], parts[i + 1]) # 0}
    IN  IF at = {}
        THEN parts
        ELSE LET i == CHOOSE j \in at :
                          \A k \in at :
                              \/ MergeRank(parts[j], parts[j + 1]) < MergeRank(parts[k], parts[k + 1])
                              \/ /\ MergeRank(parts[j], parts[j + 1]) = MergeRank(parts[k], parts[k + 1])
                                 /\ j <= k
             IN  bpe(SubSeq(parts, 1, i - 1) \o <<parts[i] \o parts[i + 1]>>
                         \o SubSeq(parts, i + 2, Len(parts)))

\* tokenizer.encode(content): the tokens of the bytes of the text
encode(content) ==
    LET bytes == Flatten([i \in 1..Len(content) |-> utf8(content[i])])
    IN  bpe([i \in 1..Len(bytes) |-> <<bytes[i]>>])

\* bytes.decode("utf-8", errors="replace"): a character for each whole
\* encoding, U+FFFD for a longest run of bytes that only begins one
RECURSIVE utf8_decode(_)
utf8_decode(b) ==
    IF b = <<>>
    THEN <<>>
    ELSE LET whole == {ch \in Alphabet : IsPrefix(utf8(ch), b)}
             begun == {k \in 1..Len(b) :
                          \E ch \in Alphabet : k < Len(utf8(ch)) /\ IsPrefix(SubSeq(b, 1, k), utf8(ch))}
             skip == IF begun = {} THEN 1 ELSE CHOOSE k \in begun : \A m \in begun : m <= k
         IN  IF whole # {}
             THEN LET ch == CHOOSE c \in whole : TRUE
                  IN  <<ch>> \o utf8_decode(SubSeq(b, Len(utf8(ch)) + 1, Len(b)))
             ELSE <<Replacement>> \o utf8_decode(SubSeq(b, skip + 1, Len(b)))

\* tokenizer.decode(tokens): the text of the bytes of the tokens
decode(tokens) == utf8_decode(Flatten(tokens))

\* llm.truncate_to_token_limit(content, max_tokens)
truncate_to_token_limit(content, max_tokens) ==
    LET tokens == encode(content)
    IN  IF Len(tokens) <= max_tokens
        THEN content
        ELSE decode(SubSeq(tokens, 1, max_tokens))

MaxText == 3
MaxTokens == 3
Texts == UNION {[1..n -> Chars] : n \in 0..MaxText}

\* llm.truncate_to_token_limit applied to a text and a limit, and then to
\* its own result.
ApplyTruncate ==
    \E content \in Texts, max_tokens \in 1..MaxTokens :
        \E out \in {truncate_to_token_limit(content, max_tokens)} :
            /\ applied.op = "none"
            /\ applied' = [op |-> "truncate", content |-> content, max_tokens |-> max_tokens,
                           tokens |-> encode(content), out |-> out,
                           again |-> truncate_to_token_limit(out, max_tokens)]
            /\ UNCHANGED <<core_vars, watch_vars>>

\* The tags a completion answers with: short ones over a few characters,
\* and "Tag One".
TagChars == {"T", "O", "a", " ", "\t"}
MaxTag == 3
TagOne == <<"T", "a", "g", " ", "O", "n", "e">>
LlmTags == UNION {[1..n -> TagChars] : n \in 1..MaxTag} \cup {TagOne}

\* default.process_url from the completion on: the note written for an
\* output with the given tags.
ApplyTags ==
    \E tag \in LlmTags, more \in {<<>>, <<TagOne>>} :
        LET output_obj == [path |-> "Research/Technology", title |-> <<"E", "x">>,
                           summary |-> "S", tags |-> <<tag>> \o more]
        IN  /\ applied.op = "none"
            /\ applied' = [op |-> "tags", tags |-> output_obj.tags,
                           written |-> Note("web", UrlArticle, output_obj.title, output_obj).tags]
            /\ UNCHANGED <<core_vars, watch_vars>>

\* The titles notes are named after.
Titles == { <<"E", "x", " ", "T">>, <<"E", "x", "!", " ", "T">>, <<"B">> }

\* base.get_filename and the naming of bookmark_processor, applied to a
\* title and the fingerprint of a URL.
ApplyFilename ==
    \E title \in Titles, url \in HashUrls :
        /\ applied.op \in {"none", "filename"}
        /\ applied' = [op |-> "filename", title |-> title, url_hash |-> hexdigest(url),
                       filename |-> get_filename(title, hexdigest(url)),
                       note |-> note_filename(title, hexdigest(url))]
        /\ UNCHANGED <<core_vars, watch_vars>>

\* An HTML page as the arXiv processor sees it: the elements it holds, out
\* of the authors block, the abstract block, the identifier, the link titled
\* "Download PDF" and the href of that link.
ArxivElements == {"authors", "abstract", "arxiv_id", "pdf_link", "pdf_href"}
ArxivPages == SUBSET ArxivElements

\* arxiv.extract_pdf_link(soup, arxiv_id)
extract_pdf_link(soup, arxiv_id) ==
    IF "pdf_link" \in soup /\ "pdf_href" \in soup
    THEN <<"https://arxiv.org", "/pdf/2410.21228">>
    ELSE IF arxiv_id # ""
    THEN <<"https://arxiv.org/pdf/", arxiv_id, ".pdf">>
    ELSE <<>>

\* An extraction that insists on every element of an arXiv page.
extract_metadata_strict(html_content) ==
    IF {"authors", "abstract", "arxiv_id"} \subseteq html_content
    THEN [exc |-> NoExc,
          ret |-> [authors |-> <<"Reece Shuttleworth", "Jacob Andreas">>,
                   abstract |-> "Fine-tuning is", arxiv_id |-> "2410.21228",
                   pdf_url |-> extract_pdf_link(html_content, "2410.21228")]]
    ELSE [exc |-> Exc("AttributeError", "NoneType", 0),
          ret |-> [authors |-> <<>>, abstract |-> "", arxiv_id |-> "", pdf_url |-> <<>>]]

\* ArxivProcessor.extract_metadata(html_content): authors, abstract and
\* identifier as the page gives them, each empty when its element is absent,
\* and the PDF link.
extract_metadata(html_content) ==
    LET arxiv_id == IF "arxiv_id" \in html_content THEN "2410.21228" ELSE ""
    IN  [exc |-> NoExc,
         ret |-> [authors |-> IF "authors" \in html_content
                              THEN <<"Reece Shuttleworth", "Jacob Andreas">> ELSE <<>>,
                  abstract |-> IF "abstract" \in html_content THEN "Fine-tuning is" ELSE "",
                  arxiv_id |-> arxiv_id,
                  pdf_url |-> extract_pdf_link(html_content, arxiv_id)]]

\* ArxivProcessor().extract_metadata applied to a page.
ApplyExtractMetadata ==
    \E html_content \in ArxivPages :
        /\ applied.op = "none"
        /\ applied' = [op |-> "metadata", html_content |-> html_content,
                       metadata |-> extract_metadata(html_content)]
        /\ UNCHANGED <<core_vars, watch_vars>>

\* The pages extraction is applied to: those of HtmlDocs and one whose
\* plain text is empty.
ExtractDocs == HtmlDocs \cup {"<E>"}

\* The extract stage of either pipeline applied to a page: get_readability of
\* bookmark_processor on empty caches, and default.process_url with the page
\* supplied, on empty directories.
ApplyExtract ==
    \E html \in ExtractDocs, answer \in LlmAnswers :
        /\ applied.op = "none"
        /\ applied' = [op |-> "extract", html |-> html,
                       plain_content |-> simple_json_from_html_string(html).plain_content,
                       stage |-> get_readability({}, {}, hexdigest(UrlArticle), html),
                       run |-> process_url(WDisk({}, {}, {}, {}, {}, {}), UrlArticle, html,
                                           World(CHOOSE r \in PageResponses : TRUE,
                                                 answer, TRUE, TRUE))]
        /\ UNCHANGED <<core_vars, watch_vars>>

NextFunctions ==
    \/ ApplyExtract
    \/ ApplyExtractMetadata
    \/ ApplyDispatch
    \/ ApplyFetch
    \/ ApplyHash
    \/ ApplyTruncate
    \/ ApplyTags
    \/ ApplyFilename

SpecFunctions == Init /\ [][NextFunctions]_vars

Dispatched == applied.op = "dispatch"

\* C11: every URL is dispatched to exactly one of arxiv, twitter, youtube and
\* generic, by the watcher and by the HTTP entry point; a URL that no domain
\* predicate matches goes to generic; and the four URLs of the specification
\* go to arxiv, twitter, youtube and generic in that order.
C11_DispatchIsTotal ==
    Dispatched =>
        /\ applied.listener \in Variants /\ applied.http \in Variants
        /\ (/\ ~is_arxiv_url(applied.url) /\ ~is_twitter_url(applied.url)
            /\ ~is_youtube_url(applied.url)) => applied.listener = "generic"
        /\ (/\ ~bp_is_arxiv_url(applied.url) /\ ~bp_is_twitter_url(applied.url)
            /\ get_processor(applied.url) = "generic") => applied.http = "generic"
        /\ applied.url = UrlArxiv => applied.listener = "arxiv" /\ applied.http = "arxiv"
        /\ applied.url = UrlTweet => applied.listener = "twitter" /\ applied.http = "twitter"
        /\ applied.url = UrlVideo => applied.listener = "youtube" /\ applied.http = "youtube"
        /\ applied.url = UrlPage => applied.listener = "generic" /\ applied.http = "generic"

\* https://x.com/u/status/1 was dispatched, to the twitter processor.
C11_Witness ==
    Dispatched /\ applied.url = UrlTweet /\ applied.listener = "twitter"

\* C12: a processor that runs to the end hands the rendered markdown of the
\* note back to its caller, whichever of arxiv, twitter, youtube and generic
\* it is.
C12_MarkdownIsReturned ==
    (Handles /\ lastw.dispatched # "none" /\ lastw.exc = NoExc) =>
        lastw.returned = "markdown"

Fetched == applied.op = "fetch"

\* The kinds of failure the specification tells apart, by status code.
StatusKind(code) ==
    CASE code = 200 -> "ok"
      [] code = 403 -> "forbidden"
      [] code = 404 -> "not-found"
      [] code = 500 -> "server-error"
      [] OTHER -> "unknown-status"

\* What an exception says about its cause: its type and the fixed words of
\* its message.
ErrorKind(exc) == <<exc.type, exc.msg>>

\* C13, in one state: a fetch answered with a status other than 200 raises,
\* after the one GET, and stores nothing.
C13_FailedFetch ==
    (Fetched /\ applied.status # 200) =>
        /\ applied.content.exc # NoExc
        /\ applied.page.exc # NoExc
        /\ ErrorKind(applied.page.exc) = ErrorKind(applied.content.exc)
        /\ applied.page.get /\ applied.page.dir = {}

\* C13, for two fetches: they raise errors of the same kind exactly when
\* their statuses are of the same kind (forbidden, not-found, server-error,
\* unknown-status).
C13_KindsTellStatusesApart ==
    (/\ applied.op = "fetch" /\ applied'.op = "fetch"
     /\ applied.status # 200 /\ applied'.status # 200) =>
        /\ (ErrorKind(applied.content.exc) = ErrorKind(applied'.content.exc))
               <=> (StatusKind(applied.status) = StatusKind(applied'.status))
        /\ (ErrorKind(applied.page.exc) = ErrorKind(applied'.page.exc))
               <=> (StatusKind(applied.status) = StatusKind(applied'.status))

\* C13: a fetch answered 403, 404, 500 or another status that is not 200
\* fails with an error whose kind tells which of the four happened, the kinds
\* being pairwise distinct and the same on every repetition; one GET is
\* issued and nothing is stored.
C13_FetchFailuresAreTyped == [](C13_FailedFetch) /\ [][C13_KindsTellStatusesApart]_vars

\* A fetch answered 404 raised the error that says the URL is missing.
C13_Witness ==
    /\ Fetched /\ applied.status = 404
    /\ applied.content.exc.type = "ValueError" /\ applied.content.exc.msg = "URL Missing"

\* The normal form of a URL text: scheme and host in lower case, the rest
\* as written.
normalize(url) ==
    [i \in 1..Len(url) |-> IF i <= Len(UpToPath(url)) THEN lower(url[i]) ELSE url[i]]

\* C14: the fingerprint depends on the normalized text of the URL only: two
\* URLs with the same normal form, the same URL twice among them, get the
\* same identifier.
C14_SameNormalFormSameId ==
    [][(/\ applied.op = "hash" /\ applied'.op = "hash"
        /\ normalize(applied.url) = normalize(applied'.url)) =>
           applied.hashed = applied'.hashed]_vars

Truncated == applied.op = "truncate"

\* C15: truncate_to_token_limit(c, n) is c when c has at most n tokens, and
\* otherwise the text of the first n tokens of c, a prefix of c; applied to
\* its own result with the same n it changes nothing.
C15_TruncationIsAPrefix ==
    Truncated =>
        /\ Len(applied.tokens) <= applied.max_tokens => applied.out = applied.content
        /\ Len(applied.tokens) > applied.max_tokens =>
               /\ applied.out = decode(SubSeq(applied.tokens, 1, applied.max_tokens))
               /\ IsPrefix(applied.out, applied.content)
        /\ applied.again = applied.out

Tagged == applied.op = "tags"

\* The number of whitespace characters a tag begins with, and ends with.
Leading(t) == CHOOSE k \in 0..Len(t) :
    /\ \A j \in 1..k : IsSpace(t[j])
    /\ k < Len(t) => ~IsSpace(t[k + 1])
Trailing(t) == CHOOSE k \in 0..Len(t) :
    /\ \A j \in 1..k : IsSpace(t[Len(t) + 1 - j])
    /\ k < Len(t) => ~IsSpace(t[Len(t) - k])

\* w is t in lower case, without the whitespace around it, and with a hyphen
\* for each space.
IsNormalized(w, t) ==
    IF Leading(t) = Len(t)
    THEN w = <<>>
    ELSE /\ Len(w) = Len(t) - Leading(t) - Trailing(t)
         /\ \A j \in 1..Len(w) :
                w[j] = IF t[Leading(t) + j] = " " THEN "-" ELSE lower(t[Leading(t) + j])

\* C16: the tags written into a note are, one for one, the tags of the
\* completion in lower case, trimmed, with a hyphen for each space; "Tag One"
\* is written as "tag-one".
C16_TagsAreNormalized ==
    Tagged =>
        /\ Len(applied.written) = Len(applied.tags)
        /\ \A i \in 1..Len(applied.tags) :
               /\ IsNormalized(applied.written[i], applied.tags[i])
               /\ applied.tags[i] = TagOne =>
                      applied.written[i] = <<"t", "a", "g", "-", "o", "n", "e">>

\* A note was written for a completion with a tag in spaces and "Tag One".
C16_Witness ==
    /\ Tagged
    /\ applied.tags = << <<" ", "T", " ">>, TagOne >>
    /\ applied.written = << <<"t">>, <<"t", "a", "g", "-", "o", "n", "e">> >>

Named == applied.op = "filename"

\* C17, in one state: the filename is the sanitized first 50 characters of
\* the title, a hyphen, the short suffix of the fingerprint and ".md", in
\* both modules that name notes.
C17_NameOfTitleAndFingerprint ==
    Named =>
        /\ applied.filename =
               sanitize_filename(Take(applied.title, TitleCap)) \o <<"-">>
                   \o unique_suffix(applied.url_hash) \o <<".md">>
        /\ applied.note = applied.filename

\* C17, for two notes: different fingerprints give different filenames.
C17_FingerprintsKeepNamesApart ==
    (/\ applied.op = "filename" /\ applied'.op = "filename"
     /\ applied.url_hash # applied'.url_hash) =>
        applied.filename # applied'.filename

\* C17: the filename of a note is a function of title and fingerprint, and
\* two bookmarks with different fingerprints never get the same filename,
\* equal titles or not.
C17_FilenamesNeverCollide ==
    [](C17_NameOfTitleAndFingerprint) /\ [][C17_FingerprintsKeepNamesApart]_vars

\* C18: a capture file that is valid JSON and holds a url only, neither raw
\* content nor a screenshot, is dispatched to the processor its URL selects
\* and is not rejected for the fields it lacks.
C18_UrlAloneIsDispatched ==
    (Handles /\ (\A i \in 1..Attempts : lastw.reads[i]) /\ lastw.keys = {}) =>
        /\ lastw.exc.type # "KeyError"
        /\ lastw.dispatched = variant(lastw.url)

Extracted == applied.op = "metadata"

C20_CutFileIsNoCacheHit ==
    last.op = "process_bookmark" =>
        /\ (last.web.called /\ last.web.hit) => last.web.ret \notin CutPages
        /\ (last.read.called /\ last.read.hit) =>
               last.read.exc = NoExc /\ last.read.ret # CutJson

\* C21: process_generic_url on a URL that has a Bookmark row does not end in
\* the error of the duplicate INSERT: with a Summary row for the fingerprint
\* it returns the markdown of that row and runs no stage, and without one it
\* ends as reprocess of that URL ends.
C21_DuplicateIsNoError ==
    (last.op = "process_generic_url" /\ last.pre_bookmark) =>
        /\ last.exc.type # "IntegrityError"
        /\ ~last.pre_summary.none =>
               /\ last.exc = NoExc /\ last.ret = last.pre_summary
               /\ ~last.web.called /\ ~last.read.called /\ last.wrote = NoMarkdown
        /\ last.pre_summary.none => last.like_reprocess

\* A second submission returned the markdown of the Summary row.
C21_Witness ==
    /\ last.op = "process_generic_url" /\ last.pre_bookmark
    /\ ~last.pre_summary.none /\ last.ret = last.pre_summary

\* A second submission without a Summary row went the way of reprocess.
C21_WitnessReprocess ==
    /\ last.op = "process_generic_url" /\ last.pre_bookmark
    /\ last.pre_summary.none /\ last.like_reprocess

\* The host of the URL is one of the arxiv, twitter/x and youtube domains,
\* with or without "www." before it.
HostIsSpecial(url) ==
    LET host == MapLower(netloc(url))
    IN  /\ host # <<>>
        /\ host[Len(host)] \in {"arxiv.org", "twitter.com", "x.com", "youtube.com"}
        /\ Len(host) = 1 \/ (Len(host) = 2 /\ host[1] = "www.")

\* C22: dispatch looks at the host only: a URL whose host is none of the
\* arxiv, twitter/x and youtube domains goes to the generic processor, whatever
\* its path and query hold.
C22_DispatchIsByHost ==
    (Dispatched /\ ~HostIsSpecial(applied.url)) => applied.listener = "generic"

\* The handler has taken a notification for a file that matches prefix and
\* suffix.
HandledValid(kind) ==
    listener.handled.kind = kind /\ is_valid_file(listener.handled.path)

\* C23: a modification notification for a file that matches the prefix and
\* the suffix starts the processing a creation notification starts:
\* process_file is called on the file.
C23_ModifiedIsProcessed ==
    /\ HandledValid("created") => listener.handled.processed
    /\ HandledValid("modified") => listener.handled.processed

\* C24: at every moment at most one capture file is in a process_file call
\* of the listener: the handler takes a notification only once the startup
\* sweep has gone through all its files, and one notification at a time.
C24_OneFileAtATime ==
    /\ Cardinality(listener.processing) <= 1
    /\ (Jobs("observer") # {} \/ listener.handled.kind # "none") =>
           /\ listener.pc = "watching" /\ listener.todo = {}
           /\ listener.snapshot \subseteq listener.passed

\* After a sweep over a file, the handler is in process_file for another.
C24_Witness ==
    /\ listener.snapshot # {}
    /\ \E job \in Jobs("observer") : job.path \notin listener.snapshot

\* The step in which a process_file call of the sweep raises.
SweepFailure(job) ==
    /\ Jobs("sweep") = {job}
    /\ job \notin listener'.processing
    /\ run_process_file(job.path).exc # NoExc

\* C27, for the step of a failure: it is logged, the file stays on disk and
\* the files the sweep has still to visit are the same but for that one.
C27_FailureIsPassedOver ==
    \A job \in listener.processing :
        SweepFailure(job) =>
            /\ job.path \in listener'.logged
            /\ exists(watch_dir', job.path)
            /\ listener'.todo = listener.todo \ {job.path}

\* C27, at the end of the sweep: every file the sweep found was passed to
\* process_file.
C27_AllFilesVisited ==
    listener.pc = "watching" => listener.snapshot \subseteq listener.passed

\* C27: a failure on one file during the startup sweep is logged and does not
\* end the sweep: every other file the sweep found is still passed to
\* process_file, and the failing file stays on disk.
C27_SweepSurvivesFailure == [](C27_AllFilesVisited) /\ [][C27_FailureIsPassedOver]_vars

\* The sweep is in process_file for a file after it has failed on another.
C27_Witness ==
    /\ listener.pc = "sweep" /\ listener.logged # {}
    /\ \E job \in Jobs("sweep") : job.path \notin listener.logged

\* The listener is watching and has nothing left to do: no event waits, no
\* process_file call is under way, and the observer thread lives.
ListenerIdle ==
    /\ listener.pc = "watching" /\ listener.queue = <<>>
    /\ listener.processing = {} /\ listener.observer = "idle"

\* C28: every capture file that matches prefix and suffix and is in the
\* watched directory after start was called is passed to process_file in the
\* end, a file created during the startup sweep among them: when the listener
\* has nothing left to do, no matching file of the directory has been left out.
C28_NoFileIsLeftOut ==
    ListenerIdle =>
        \A f \in watch_dir : is_valid_file(f.name) => f.name \in listener.passed

\* C29: process_file reads the capture file no more once an attempt has
\* parsed it: the reads it makes end with the first valid one, and a call in
\* which an attempt parsed the file does not end in the parse error.
C29_FirstParseIsKept ==
    (Handles /\ SomeReadValid) =>
        /\ \A i \in 1..Attempts :
               (lastw.reads[i] /\ \A j \in 1..(i - 1) : ~lastw.reads[j]) =>
                   lastw.attempts = i
        /\ ~ParseFailed

\* C30: for every URL the HTTP entry point, bookmark_processor.bookmark, and
\* the watcher, listener.process_file, choose the same one of arxiv, twitter,
\* youtube and generic.
C30_EntryPointsAgree ==
    Dispatched => applied.http = applied.listener

\* C25: when the extracted plain text is null or empty the extract stage
\* raises and stores nothing, and no later stage runs: no completion is asked
\* for and no note is written.
C25_EmptyTextIsAFailure ==
    (applied.op = "extract" /\ applied.plain_content \in {None, ""}) =>
        /\ applied.stage.exc # NoExc /\ applied.stage.rdir = {}
        /\ applied.run.exc # NoExc /\ applied.run.llm = 0 /\ applied.run.wd.kb_notes = {}

\* C26: a failure inside a stage of a run, the transcript request of the
\* youtube processor included, reaches the caller of process_file: the call
\* raises and writes no note.
C26_TranscriptFailureIsRaised ==
    (Handles /\ lastw.transcript_failed) =>
        lastw.exc # NoExc /\ lastw.kb_unchanged

====
